---- MODULE Spec2Model ----
\* Model of the car-park server (express + better-sqlite3): the four tables,
\* the seed data and the request handlers of the HTTP API. One action per
\* handler; `last` holds the request just handled and the response sent.
EXTENDS Integers, Sequences, FiniteSets, Bags, TLC

\* ---------------------------------------------------------------- bounds
\* The lot is seeded with 50 spaces of which the first 15 are package spaces;
\* the model keeps the layout (package spaces first, the seeded vehicles on the
\* first two package and the first two normal spaces) on a smaller lot.
TotalSpaces == 6
PackageSpaces == 3
\* the wall clock advances at most MaxTicks times, MaxLogs caps the tables
MaxTicks == 1
MaxLogs == 12
\* fetches of the browser app that are under way at one time
MaxFetches == 2

\* ------------------------------------------------------- program constants
HourMs == 60 * 60 * 1000
halfDayMs == 1000 * 60 * 60 * 12
UnitRate == 20
\* the instant `now` of the seed, taken as the origin of the time axis (ms)
SeedNow == 0
ClockStep == 12 * HourMs

\* plates of the seed data (transliterated to ASCII)
YueB88888 == "YueB88888"
JingA00001 == "JingA00001"
HuC66666 == "HuC66666"
ZheA12345 == "ZheA12345"
SuE99999 == "SuE99999"
ChuanA77777 == "ChuanA77777"
YueB12345 == "YueB12345"
JingA88888 == "JingA88888"
HuA66666 == "HuA66666"

\* request inputs
PlateInputs == {YueB88888, SuE99999, HuC66666, "NewA00001"}
WhitelistPlateInputs == {SuE99999, HuC66666}
NotesInputs == {"note"}
\* one space of each kind of the seed data: an occupied and an available
\* package space, an occupied and an available normal space
SpaceIdInputs == {1, PackageSpaces, PackageSpaces + 1, TotalSpaces}
\* the target status of a reservation toggle (setReservation of the interface)
StatusInputs == {"available", "reserved"}
\* the status strings a request body of /api/reserve may carry: the handler
\* reads `status` from the body and binds it as it is
RawStatusInputs == {"available", "reserved", "occupied", "maintenance"}

\* The browser app: uiSpaces is its `spaces` state, the list of spaces it
\* applied last (empty until the first one); fetching counts the calls of
\* fetchData whose GET /api/spaces the server has not answered yet; answers
\* is the bag of the lists the server answered that the app has not applied
\* yet, one for each call. posts is the bag of the POST /api/reserve requests
\* <<spaceId, status>> a click has sent that the server has not handled yet;
\* replies counts the answers to them that have not come back to the app.
VARIABLES spaces, package_whitelist, vehicles, logs, now, last,
          uiSpaces, fetching, answers, posts, replies

ui == <<uiSpaces, fetching, answers, posts, replies>>
vars == <<spaces, package_whitelist, vehicles, logs, now, last,
          uiSpaces, fetching, answers, posts, replies>>
db == <<spaces, package_whitelist, vehicles, logs>>

\* ------------------------------------------------------------------ seed
\* exit_time is << >> for NULL and <<t>> once set
NULL == << >>

seedSpaces ==
  [i \in 1..TotalSpaces |->
     [status |-> "available",
      type |-> IF i <= PackageSpaces THEN "package" ELSE "normal"]]

whitelistPlates ==
  << <<YueB88888, "VIP">>, <<JingA00001, "agency">>,
     <<HuC66666, "partner">>, <<ZheA12345, "family">> >>

activeVehicles ==
  << [plate |-> YueB88888, hasPkg |-> 1, spaceId |-> 1, entryOffset |-> 2],
     [plate |-> JingA00001, hasPkg |-> 1, spaceId |-> 2, entryOffset |-> 5],
     [plate |-> SuE99999, hasPkg |-> 0, spaceId |-> PackageSpaces + 1, entryOffset |-> 1],
     [plate |-> ChuanA77777, hasPkg |-> 0, spaceId |-> PackageSpaces + 2, entryOffset |-> 8] >>

historicalLogs ==
  << [plate |-> YueB12345, action |-> "entry", offset |-> 24, amount |-> 0, duration |-> 0],
     [plate |-> YueB12345, action |-> "exit", offset |-> 12, amount |-> 20, duration |-> 1],
     [plate |-> JingA88888, action |-> "entry", offset |-> 48, amount |-> 0, duration |-> 0],
     [plate |-> JingA88888, action |-> "exit", offset |-> 36, amount |-> 40, duration |-> 2],
     [plate |-> HuA66666, action |-> "entry", offset |-> 10, amount |-> 0, duration |-> 0],
     [plate |-> HuA66666, action |-> "exit", offset |-> 2, amount |-> 20, duration |-> 1] >>

\* created_at is DEFAULT CURRENT_TIMESTAMP: the wall clock when the rows are
\* inserted, not the instant `now` written in the seed
seedWhitelist(clock) ==
  {[plate_number |-> whitelistPlates[i][1], notes |-> whitelistPlates[i][2],
    created_at |-> clock] : i \in 1..Len(whitelistPlates)}

seedVehicles ==
  [i \in 1..Len(activeVehicles) |->
     [plate_number |-> activeVehicles[i].plate,
      has_package |-> activeVehicles[i].hasPkg,
      entry_time |-> SeedNow - activeVehicles[i].entryOffset * 60 * 60 * 1000,
      exit_time |-> NULL,
      space_id |-> activeVehicles[i].spaceId]]

seedOccupied ==
  [i \in 1..TotalSpaces |->
     IF \E k \in 1..Len(activeVehicles) : activeVehicles[k].spaceId = i
     THEN [seedSpaces[i] EXCEPT !.status = "occupied"]
     ELSE seedSpaces[i]]

seedLogs ==
  [i \in 1..Len(activeVehicles) |->
     [plate_number |-> activeVehicles[i].plate, action |-> "entry",
      timestamp |-> SeedNow - activeVehicles[i].entryOffset * 60 * 60 * 1000,
      amount |-> 0, duration_half_days |-> 0]]
  \o
  [i \in 1..Len(historicalLogs) |->
     [plate_number |-> historicalLogs[i].plate, action |-> historicalLogs[i].action,
      timestamp |-> SeedNow - historicalLogs[i].offset * 60 * 60 * 1000,
      amount |-> historicalLogs[i].amount,
      duration_half_days |-> historicalLogs[i].duration]]

\* ------------------------------------------------------- request / response
NoReq == [op |-> "none", plateNumber |-> "", notes |-> "", spaceId |-> 0, status |-> ""]
NoRes == [code |-> 0, error |-> "", spaceId |-> 0, hasPackage |-> FALSE,
          amount |-> 0, durationHalfDays |-> 0, entryTime |-> NULL, exitTime |-> NULL]

Success == [NoRes EXCEPT !.code = 200]
\* an exception that leaves the handler: express answers 500
InternalError == [NoRes EXCEPT !.code = 500, !.error = "Internal Server Error"]
LotFull == [NoRes EXCEPT !.code = 400, !.error = "lot full"]
NotParked == [NoRes EXCEPT !.code = 404, !.error = "not parked"]
Duplicate == [NoRes EXCEPT !.code = 400, !.error = "duplicate plate"]

Init ==
  /\ spaces = seedOccupied
  /\ package_whitelist = seedWhitelist(SeedNow)
  /\ vehicles = seedVehicles
  /\ logs = seedLogs
  /\ now = SeedNow
  /\ last = [req |-> NoReq, res |-> NoRes]
  /\ uiSpaces = << >>
  /\ fetching = 0
  /\ answers = EmptyBag
  /\ posts = EmptyBag
  /\ replies = 0


\* ------------------------------------------------------------ better-sqlite3
\* Statement.get/run/all bind their arguments to the `?` of the statement and
\* throw RangeError unless exactly as many values as parameters are given.
BindOk(paramCount, args) == Len(args) = paramCount

Min(S) == CHOOSE x \in S : \A y \in S : x <= y

\* Math.ceil(a / b) for b > 0
Ceil(a, b) == -((-a) \div b)

IsActive(v) == v.exit_time = NULL
ActiveIds == {i \in 1..Len(vehicles) : IsActive(vehicles[i])}

\* ------------------------------------------------------------- POST /api/entry
\* (variant: the plate is bound to the statement's parameter)
entryLookupArgsBound(plateNumber) == <<plateNumber>>

\* the values bound to "... WHERE plate_number = ?" by .get()
entryLookupArgs(plateNumber) == << >>

\* SELECT * FROM package_whitelist WHERE plate_number = ?
whitelistEntry(plate) == {w \in package_whitelist : w.plate_number = plate}

\* SELECT id FROM spaces WHERE status = 'available' [AND type = 'package'] LIMIT 1
\* (a scan of the table in rowid order; 0 stands for no row)
availablePackage == {i \in DOMAIN spaces : spaces[i].status = "available" /\ spaces[i].type = "package"}
availableAny == {i \in DOMAIN spaces : spaces[i].status = "available"}

\* (variant: the two queries with status <> 'occupied' for status = 'available')
selectSpaceNotOccupied(hasPackage) ==
  LET freePackage == {i \in DOMAIN spaces : spaces[i].status # "occupied" /\ spaces[i].type = "package"}
      freeAny == {i \in DOMAIN spaces : spaces[i].status # "occupied"}
      first == IF hasPackage /\ freePackage # {} THEN Min(freePackage) ELSE 0
  IN IF first # 0 THEN first
     ELSE IF freeAny # {} THEN Min(freeAny) ELSE 0

selectSpace(hasPackage) ==
  LET first == IF hasPackage /\ availablePackage # {} THEN Min(availablePackage) ELSE 0
  IN IF first # 0 THEN first
     ELSE IF availableAny # {} THEN Min(availableAny) ELSE 0

\* vehicles.plate_number is UNIQUE: the INSERT throws when the plate has a row
plateHasRow(plateNumber) == \E i \in 1..Len(vehicles) : vehicles[i].plate_number = plateNumber

Unchanged(res) ==
  [res |-> res, spaces |-> spaces, vehicles |-> vehicles, logs |-> logs]

\* (variant: the handler with the plate bound to the lookup and an INSERT that
\* a second row for the plate does not make throw)
entryUnguarded(plateNumber) ==
  LET hasPackage == whitelistEntry(plateNumber) # {}
      space == selectSpace(hasPackage)
  IN IF space = 0 THEN Unchanged(LotFull)
     ELSE
       [res |-> [Success EXCEPT !.spaceId = space, !.hasPackage = hasPackage],
        spaces |-> [spaces EXCEPT ![space].status = "occupied"],
        vehicles |-> Append(vehicles,
                      [plate_number |-> plateNumber,
                       has_package |-> IF hasPackage THEN 1 ELSE 0,
                       entry_time |-> now, exit_time |-> NULL,
                       space_id |-> space]),
        logs |-> Append(logs,
                      [plate_number |-> plateNumber, action |-> "entry",
                       timestamp |-> now, amount |-> 0,
                       duration_half_days |-> 0])]

\* (variant: the plate is bound to the lookup and the space is marked occupied
\* before the INSERT into vehicles, which throws for a plate that has a row)
entryUpdateFirst(plateNumber) ==
  LET hasPackage == whitelistEntry(plateNumber) # {}
      space == selectSpace(hasPackage)
      marked == IF space = 0 THEN spaces
                ELSE [spaces EXCEPT ![space].status = "occupied"]
  IN IF space = 0 THEN Unchanged(LotFull)
     ELSE IF plateHasRow(plateNumber)
     THEN [res |-> InternalError, spaces |-> marked, vehicles |-> vehicles, logs |-> logs]
     ELSE
       [res |-> [Success EXCEPT !.spaceId = space, !.hasPackage = hasPackage],
        spaces |-> marked,
        vehicles |-> Append(vehicles,
                      [plate_number |-> plateNumber,
                       has_package |-> IF hasPackage THEN 1 ELSE 0,
                       entry_time |-> now, exit_time |-> NULL,
                       space_id |-> space]),
        logs |-> Append(logs,
                      [plate_number |-> plateNumber, action |-> "entry",
                       timestamp |-> now, amount |-> 0,
                       duration_half_days |-> 0])]

\* (variant: the plate is bound to the lookup and the entry event is written
\* to the log before the INSERT into vehicles, which throws for a plate that
\* has a row)
entryLogFirst(plateNumber) ==
  LET hasPackage == whitelistEntry(plateNumber) # {}
      space == selectSpace(hasPackage)
      logged == Append(logs,
                  [plate_number |-> plateNumber, action |-> "entry",
                   timestamp |-> now, amount |-> 0, duration_half_days |-> 0])
  IN IF space = 0 THEN Unchanged(LotFull)
     ELSE IF plateHasRow(plateNumber)
     THEN [res |-> InternalError, spaces |-> spaces, vehicles |-> vehicles, logs |-> logged]
     ELSE
       [res |-> [Success EXCEPT !.spaceId = space, !.hasPackage = hasPackage],
        spaces |-> [spaces EXCEPT ![space].status = "occupied"],
        vehicles |-> Append(vehicles,
                      [plate_number |-> plateNumber,
                       has_package |-> IF hasPackage THEN 1 ELSE 0,
                       entry_time |-> now, exit_time |-> NULL,
                       space_id |-> space]),
        logs |-> logged]

entry(plateNumber) ==
  LET args == entryLookupArgs(plateNumber) IN
  IF ~BindOk(1, args) THEN Unchanged(InternalError)
  ELSE
    LET hasPackage == whitelistEntry(args[1]) # {}
        space == selectSpace(hasPackage)
        entryTime == now
    IN IF space = 0 THEN Unchanged(LotFull)
       ELSE IF plateHasRow(plateNumber) THEN Unchanged(InternalError)
       ELSE
         [res |-> [Success EXCEPT !.spaceId = space, !.hasPackage = hasPackage],
          spaces |-> [spaces EXCEPT ![space].status = "occupied"],
          vehicles |-> Append(vehicles,
                        [plate_number |-> plateNumber,
                         has_package |-> IF hasPackage THEN 1 ELSE 0,
                         entry_time |-> entryTime, exit_time |-> NULL,
                         space_id |-> space]),
          logs |-> Append(logs,
                        [plate_number |-> plateNumber, action |-> "entry",
                         timestamp |-> entryTime, amount |-> 0,
                         duration_half_days |-> 0])]

Entry(plateNumber) ==
  /\ Len(logs) < MaxLogs
  /\ LET r == entry(plateNumber) IN
       /\ spaces' = r.spaces
       /\ vehicles' = r.vehicles
       /\ logs' = r.logs
       /\ last' = [req |-> [NoReq EXCEPT !.op = "entry", !.plateNumber = plateNumber],
                   res |-> r.res]
  /\ UNCHANGED <<package_whitelist, now, ui>>

\* -------------------------------------------------------------- POST /api/exit
\* (variant: the plate is bound to the statement's parameter)
exitLookupArgsBound(plateNumber) == <<plateNumber>>

\* the values bound to "... WHERE plate_number = ? AND exit_time IS NULL" by .get()
exitLookupArgs(plateNumber) == << >>

activeVehicle(plate) ==
  {i \in 1..Len(vehicles) : vehicles[i].plate_number = plate /\ IsActive(vehicles[i])}

\* (variant: Math.floor for Math.ceil)
halfDaysFloor(durationMs) == durationMs \div halfDayMs

halfDaysOf(durationMs) == Ceil(durationMs, halfDayMs)

amountOf(has_package, halfDays) == IF has_package = 0 THEN halfDays * UnitRate ELSE 0

\* (variant: the plate is bound to the lookup and the package flag is looked
\* up in the whitelist at the time of the exit)
exitBillsByWhitelist(plateNumber) ==
  IF activeVehicle(plateNumber) = {} THEN Unchanged(NotParked)
  ELSE
    LET id == Min(activeVehicle(plateNumber))
        vehicle == vehicles[id]
        exitTime == now
        halfDays == halfDaysOf(exitTime - vehicle.entry_time)
        hasPackage == whitelistEntry(plateNumber) # {}
        amount == amountOf(IF hasPackage THEN 1 ELSE 0, halfDays)
    IN [res |-> [Success EXCEPT !.amount = amount, !.durationHalfDays = halfDays,
                                !.hasPackage = hasPackage,
                                !.entryTime = <<vehicle.entry_time>>,
                                !.exitTime = <<exitTime>>],
        spaces |-> [i \in DOMAIN spaces |->
                      IF i = vehicle.space_id
                      THEN [spaces[i] EXCEPT !.status = "available"] ELSE spaces[i]],
        vehicles |-> [vehicles EXCEPT ![id].exit_time = <<exitTime>>],
        logs |-> Append(logs,
                   [plate_number |-> plateNumber, action |-> "exit",
                    timestamp |-> exitTime, amount |-> amount,
                    duration_half_days |-> halfDays])]

exit(plateNumber) ==
  LET args == exitLookupArgs(plateNumber) IN
  IF ~BindOk(1, args) THEN Unchanged(InternalError)
  ELSE IF activeVehicle(args[1]) = {} THEN Unchanged(NotParked)
  ELSE
    LET id == Min(activeVehicle(args[1]))
        vehicle == vehicles[id]
        exitTime == now
        durationMs == exitTime - vehicle.entry_time
        halfDays == halfDaysOf(durationMs)
        amount == amountOf(vehicle.has_package, halfDays)
    IN [res |-> [Success EXCEPT !.amount = amount, !.durationHalfDays = halfDays,
                                !.hasPackage = (vehicle.has_package # 0),
                                !.entryTime = <<vehicle.entry_time>>,
                                !.exitTime = <<exitTime>>],
        spaces |-> [i \in DOMAIN spaces |->
                      IF i = vehicle.space_id
                      THEN [spaces[i] EXCEPT !.status = "available"] ELSE spaces[i]],
        vehicles |-> [vehicles EXCEPT ![id].exit_time = <<exitTime>>],
        logs |-> Append(logs,
                   [plate_number |-> plateNumber, action |-> "exit",
                    timestamp |-> exitTime, amount |-> amount,
                    duration_half_days |-> halfDays])]

Exit(plateNumber) ==
  /\ Len(logs) < MaxLogs
  /\ LET r == exit(plateNumber) IN
       /\ spaces' = r.spaces
       /\ vehicles' = r.vehicles
       /\ logs' = r.logs
       /\ last' = [req |-> [NoReq EXCEPT !.op = "exit", !.plateNumber = plateNumber],
                   res |-> r.res]
  /\ UNCHANGED <<package_whitelist, now, ui>>

\* ------------------------------------------------------------ /api/whitelist
isWhitelisted(plate) == \E w \in package_whitelist : w.plate_number = plate

\* (variant: an INSERT that a row with the same plate does not make throw)
whitelistInsertNoUnique(plateNumber, notes) ==
  [res |-> Success,
   package_whitelist |-> package_whitelist \cup
      {[plate_number |-> plateNumber, notes |-> notes, created_at |-> now]}]

\* INSERT INTO package_whitelist (plate_number, notes) inside try/catch:
\* plate_number is UNIQUE, the INSERT throws when the plate has a row
whitelistInsert(plateNumber, notes) ==
  IF isWhitelisted(plateNumber)
  THEN [res |-> Duplicate, package_whitelist |-> package_whitelist]
  ELSE [res |-> Success,
        package_whitelist |-> package_whitelist \cup
           {[plate_number |-> plateNumber, notes |-> notes, created_at |-> now]}]

WhitelistAdd(plateNumber, notes) ==
  /\ package_whitelist' = whitelistInsert(plateNumber, notes).package_whitelist
  /\ last' = [req |-> [NoReq EXCEPT !.op = "whitelist_add", !.plateNumber = plateNumber,
                                    !.notes = notes],
              res |-> whitelistInsert(plateNumber, notes).res]
  /\ UNCHANGED <<spaces, vehicles, logs, now, ui>>

\* (variant: a removal that answers 404 for a plate that has no row)
whitelistDeleteStrict(plate) ==
  IF isWhitelisted(plate)
  THEN [res |-> Success,
        package_whitelist |-> {w \in package_whitelist : w.plate_number # plate}]
  ELSE [res |-> NotParked, package_whitelist |-> package_whitelist]

\* DELETE FROM package_whitelist WHERE plate_number = ?  (no row: no error)
whitelistDelete(plate) ==
  [res |-> Success,
   package_whitelist |-> {w \in package_whitelist : w.plate_number # plate}]

WhitelistRemove(plate) ==
  /\ package_whitelist' = whitelistDelete(plate).package_whitelist
  /\ last' = [req |-> [NoReq EXCEPT !.op = "whitelist_remove", !.plateNumber = plate],
              res |-> whitelistDelete(plate).res]
  /\ UNCHANGED <<spaces, vehicles, logs, now, ui>>

\* -------------------------------------------------------------- /api/reserve
\* UPDATE spaces SET status = ? WHERE id = ?
reserve(spaceId, status) ==
  [i \in DOMAIN spaces |->
     IF i = spaceId THEN [spaces[i] EXCEPT !.status = status] ELSE spaces[i]]

reserveRequest(spaceId, status) ==
  /\ spaces' = reserve(spaceId, status)
  /\ last' = [req |-> [NoReq EXCEPT !.op = "reserve", !.spaceId = spaceId, !.status = status],
              res |-> Success]
  /\ UNCHANGED <<package_whitelist, vehicles, logs, now>>

Reserve(spaceId, status) ==
  /\ reserveRequest(spaceId, status)
  /\ UNCHANGED ui

\* ------------------------------------------------------------------- clock
\* new Date(): the wall clock moves on between requests
Tick ==
  /\ now + ClockStep <= SeedNow + MaxTicks * ClockStep
  /\ now' = now + ClockStep
  /\ UNCHANGED <<spaces, package_whitelist, vehicles, logs, last, ui>>

Next ==
  \/ \E p \in PlateInputs : Entry(p)
  \/ \E p \in PlateInputs : Exit(p)
  \/ \E p \in WhitelistPlateInputs, n \in NotesInputs : WhitelistAdd(p, n)
  \/ \E p \in WhitelistPlateInputs : WhitelistRemove(p)
  \/ \E s \in SpaceIdInputs, st \in StatusInputs : Reserve(s, st)
  \/ Tick

Spec == Init /\ [][Next]_vars

\* ------------------------------------------------------------ the browser app
\* fetchData is called when the app is mounted and every 5 s after that
\* (useEffect, setInterval), and by toggleSpaceReservation after its POST.
\* It awaits its requests: the server answers GET /api/spaces at one moment,
\* the app applies the answer (setSpaces) at a later one, and answers of
\* different calls are applied in the order they come back.
fetchesUnderWay == fetching + BagCardinality(answers)

\* the calls of toggleSpaceReservation that have not reached their fetchData
togglesUnderWay == BagCardinality(posts) + replies

callsUnderWay == fetchesUnderWay + togglesUnderWay

\* the timer (or the mount) calls fetchData
Poll ==
  /\ callsUnderWay < MaxFetches
  /\ fetching' = fetching + 1
  /\ UNCHANGED <<spaces, package_whitelist, vehicles, logs, now, last,
                 uiSpaces, answers, posts, replies>>

\* GET /api/spaces: the server answers a call of fetchData with the table
FetchAnswer ==
  /\ fetching > 0
  /\ fetching' = fetching - 1
  /\ answers' = answers (+) SetToBag({spaces})
  /\ UNCHANGED <<spaces, package_whitelist, vehicles, logs, now, last,
                 uiSpaces, posts, replies>>

\* setSpaces(await spRes.json()): the app applies the answer of one call
FetchData ==
  /\ \E a \in BagToSet(answers) :
        /\ uiSpaces' = a
        /\ answers' = answers (-) SetToBag({a})
  /\ UNCHANGED <<spaces, package_whitelist, vehicles, logs, now, last,
                 fetching, posts, replies>>

\* a request of fetchData fails: the catch block logs it, nothing is applied
FetchFailed ==
  /\ \/ /\ fetching > 0
        /\ fetching' = fetching - 1
        /\ UNCHANGED answers
     \/ /\ \E a \in BagToSet(answers) : answers' = answers (-) SetToBag({a})
        /\ UNCHANGED fetching
  /\ UNCHANGED <<spaces, package_whitelist, vehicles, logs, now, last,
                 uiSpaces, posts, replies>>

\* toggleSpaceReservation: the status the app asks for
newStatus(currentStatus) ==
  IF currentStatus = "reserved" THEN "available" ELSE "reserved"

\* a click on the tile of a space: nothing happens on a tile shown as occupied,
\* otherwise the app computes the status from the tile and sends
\* POST /api/reserve; the function then waits for the answer
ToggleSpaceReservation(spaceId) ==
  /\ spaceId \in DOMAIN uiSpaces
  /\ uiSpaces[spaceId].status # "occupied"
  /\ callsUnderWay < MaxFetches
  /\ posts' = posts (+) SetToBag({<<spaceId, newStatus(uiSpaces[spaceId].status)>>})
  /\ UNCHANGED <<spaces, package_whitelist, vehicles, logs, now, last,
                 uiSpaces, fetching, answers, replies>>

\* the server handles a POST /api/reserve of the app and answers it
ToggleHandled ==
  /\ \E r \in BagToSet(posts) :
        /\ reserveRequest(r[1], r[2])
        /\ posts' = posts (-) SetToBag({r})
  /\ replies' = replies + 1
  /\ UNCHANGED <<uiSpaces, fetching, answers>>

\* the answer to the POST comes back: toggleSpaceReservation goes on after its
\* await and calls fetchData
ToggleAnswered ==
  /\ replies > 0
  /\ replies' = replies - 1
  /\ fetching' = fetching + 1
  /\ UNCHANGED <<spaces, package_whitelist, vehicles, logs, now, last,
                 uiSpaces, answers, posts>>

\* the POST fails on its way to the server or its answer on the way back: the
\* catch block alerts, fetchData is not called
ToggleFailed ==
  /\ \/ /\ \E r \in BagToSet(posts) : posts' = posts (-) SetToBag({r})
        /\ UNCHANGED replies
     \/ /\ replies > 0
        /\ replies' = replies - 1
        /\ UNCHANGED posts
  /\ UNCHANGED <<spaces, package_whitelist, vehicles, logs, now, last,
                 uiSpaces, fetching, answers>>

\* the server reached only through the app for reservation toggles
NextUI ==
  \/ \E p \in PlateInputs : Entry(p)
  \/ \E p \in PlateInputs : Exit(p)
  \/ \E p \in WhitelistPlateInputs, n \in NotesInputs : WhitelistAdd(p, n)
  \/ \E p \in WhitelistPlateInputs : WhitelistRemove(p)
  \/ \E s \in SpaceIdInputs : ToggleSpaceReservation(s)
  \/ ToggleHandled
  \/ ToggleAnswered
  \/ ToggleFailed
  \/ Poll
  \/ FetchAnswer
  \/ FetchData
  \/ FetchFailed
  \/ Tick

SpecUI == Init /\ [][NextUI]_vars

\* the app's fetches and toggles interleaved with the entries and exits alone
NextToggle ==
  \/ \E p \in PlateInputs : Entry(p)
  \/ \E p \in PlateInputs : Exit(p)
  \/ \E s \in SpaceIdInputs : ToggleSpaceReservation(s)
  \/ ToggleHandled
  \/ ToggleAnswered
  \/ ToggleFailed
  \/ Poll
  \/ FetchAnswer
  \/ FetchData
  \/ FetchFailed

SpecToggle == Init /\ [][NextToggle]_vars

\* the server reached by requests to /api/reserve with any status string
NextApi ==
  \/ \E s \in SpaceIdInputs, st \in RawStatusInputs : Reserve(s, st)
  \/ \E p \in PlateInputs : Entry(p)
  \/ \E p \in PlateInputs : Exit(p)

SpecApi == Init /\ [][NextApi]_vars

\* the server started with the wall clock set before the instant written in the
\* seed (the seeded entry times are offsets from '2026-02-27T22:33:18-08:00',
\* whatever the clock reads when the tables are filled)
ClockEarly == SeedNow - 2 * ClockStep

InitClock ==
  /\ spaces = seedOccupied
  /\ package_whitelist = seedWhitelist(ClockEarly)
  /\ vehicles = seedVehicles
  /\ logs = seedLogs
  /\ now = ClockEarly
  /\ last = [req |-> NoReq, res |-> NoRes]
  /\ uiSpaces = << >>
  /\ fetching = 0
  /\ answers = EmptyBag
  /\ posts = EmptyBag
  /\ replies = 0

\* the requests that read or write the occupancy records and the event log
NextClock ==
  \/ \E p \in PlateInputs : Entry(p)
  \/ \E p \in PlateInputs : Exit(p)
  \/ \E p \in WhitelistPlateInputs, n \in NotesInputs : WhitelistAdd(p, n)
  \/ \E p \in WhitelistPlateInputs : WhitelistRemove(p)
  \/ Tick

SpecClock == InitClock /\ [][NextClock]_vars

\* GET /api/stats: SELECT SUM(amount) FROM logs
RECURSIVE sumAmount(_)
sumAmount(sq) ==
  IF sq = << >> THEN 0 ELSE sq[1].amount + sumAmount(Tail(sq))

totalRevenue == sumAmount(logs)

\* GET /api/stats: the figures of the response
stats ==
  LET total == Cardinality(DOMAIN spaces)
      occupied == Cardinality({i \in DOMAIN spaces : spaces[i].status = "occupied"})
      reserved == Cardinality({i \in DOMAIN spaces : spaces[i].status = "reserved"})
  IN [totalSpaces |-> total,
      occupiedSpaces |-> occupied,
      reservedSpaces |-> reserved,
      availableSpaces |-> total - occupied - reserved,
      totalRevenue |-> totalRevenue,
      whitelistCount |-> Cardinality(package_whitelist)]

TypeOK ==
  /\ DOMAIN spaces = 1..TotalSpaces
  /\ \A i \in DOMAIN spaces : spaces[i].type \in {"package", "normal"}
  /\ Len(logs) <= MaxLogs


\* ===================================================================== claims
occupiedSpaces == {i \in DOMAIN spaces : spaces[i].status = "occupied"}
activeOn(s) == {i \in ActiveIds : vehicles[i].space_id = s}
activeOf(plate) == {i \in ActiveIds : vehicles[i].plate_number = plate}

\* the step just taken handled an entry (exit) request: every handler writes
\* `last`; the clock step and the app's fetch are the ones that leave it alone
EntryStep == last'.req.op = "entry" /\ now' = now /\ ui' = ui
ExitStep == last'.req.op = "exit" /\ now' = now /\ ui' = ui

\* C1: in every reachable state no space is referenced by more than one active
\* (exit-time-unset) occupancy record.
C1_NoDoubleAssign ==
  \A i \in ActiveIds, j \in ActiveIds :
     vehicles[i].space_id = vehicles[j].space_id => i = j

\* an entry request was handled while the space of an active record read
\* 'available' (after a reservation toggle), i.e. while the selection could
\* have picked a space that is in use
C1_Witness ==
  /\ last.req.op = "entry"
  /\ \E i \in ActiveIds : spaces[vehicles[i].space_id].status = "available"

\* C2: in every reachable state the number of spaces with status = occupied
\* equals the number of active occupancy records.
C2_OccupiedEqualsActive ==
  Cardinality(occupiedSpaces) = Cardinality(ActiveIds)

\* C3: in every reachable state each plate has at most one active occupancy
\* record.
C3_OneActivePerPlate ==
  \A i \in ActiveIds, j \in ActiveIds :
     vehicles[i].plate_number = vehicles[j].plate_number => i = j

\* an entry request for a plate that is parked was handled and refused
C3_Witness ==
  /\ last.req.op = "entry"
  /\ activeOf(last.req.plateNumber) # {}
  /\ last.res.code # 200

\* C4: every occupied space is referenced by exactly one active record, every
\* available or reserved space by none.
C4_StatusMatchesLedger ==
  \A s \in DOMAIN spaces :
     /\ spaces[s].status = "occupied" => Cardinality(activeOn(s)) = 1
     /\ spaces[s].status \in {"available", "reserved"} => activeOn(s) = {}

\* C5: Entry(plate), for a plate that is not parked and with a space available,
\* returns and stores on the new record hasPackage = TRUE exactly when the plate
\* is on the whitelist at the moment of the call.
C5_HasPackageIffWhitelisted ==
  [][(EntryStep /\ ~plateHasRow(last'.req.plateNumber) /\ availableAny # {})
       => /\ last'.res.code = 200
          /\ last'.res.hasPackage = isWhitelisted(last'.req.plateNumber)
          /\ Len(vehicles') = Len(vehicles) + 1
          /\ (vehicles'[Len(vehicles')].has_package = 1)
               = isWhitelisted(last'.req.plateNumber)]_vars

\* C6: Entry for a whitelisted plate (not parked) while a package space is
\* available assigns a package space.
C6_PackagePreferred ==
  [][(EntryStep /\ isWhitelisted(last'.req.plateNumber)
        /\ ~plateHasRow(last'.req.plateNumber) /\ availablePackage # {})
       => /\ last'.res.code = 200
          /\ last'.res.spaceId \in availablePackage]_vars

\* C7: Entry for a whitelisted plate (not parked) while no package space but a
\* normal space is available succeeds and assigns a normal space.
C7_FallbackToNormal ==
  [][(EntryStep /\ isWhitelisted(last'.req.plateNumber)
        /\ ~plateHasRow(last'.req.plateNumber)
        /\ availablePackage = {} /\ availableAny # {})
       => /\ last'.res.code = 200
          /\ last'.res.spaceId \in availableAny
          /\ spaces[last'.res.spaceId].type = "normal"]_vars

\* the least number of half days that covers a stay of d milliseconds
coversStay(h, d) == h * halfDayMs >= d /\ (h - 1) * halfDayMs < d

C10_LotFull ==
  [][(EntryStep /\ availableAny = {})
       => /\ last'.res = LotFull
          /\ db' = db]_vars


\* the step just taken handled a reservation request: one sent as it is, or
\* one of the app, whose answer is then on its way back
ReserveStep ==
  /\ last'.req.op = "reserve"
  /\ now' = now
  /\ uiSpaces' = uiSpaces
  /\ answers' = answers
  /\ fetching' = fetching
  /\ \/ posts' = posts /\ replies' = replies
     \/ replies' = replies + 1
WhitelistAddStep == last'.req.op = "whitelist_add" /\ now' = now /\ ui' = ui

\* C11: Entry for a plate that has an active record fails with an error sent
\* to the caller and writes nothing: no space status, no occupancy record and
\* no log entry changes.
C11_AlreadyParkedAtomic ==
  [][(EntryStep /\ activeOf(last'.req.plateNumber) # {})
       => /\ last'.res.code >= 400
          /\ db' = db]_vars

\* an entry for a parked plate was refused while a space was available for it
C11_Witness ==
  /\ last.req.op = "entry"
  /\ activeOf(last.req.plateNumber) # {}
  /\ availableAny # {}
  /\ last.res.code >= 400
  /\ Len(vehicles) = Len(seedVehicles)

\* C12: Exit for a plate without an active record fails with the not-parked
\* error and leaves log, spaces and occupancy records unchanged.
C12_NotParked ==
  [][(ExitStep /\ activeOf(last'.req.plateNumber) = {})
       => /\ last'.res = NotParked
          /\ db' = db]_vars

\* C13: the cycle Absent -> Parked -> Absent: Exit of a parked plate succeeds
\* and leaves the plate without an active record, its closed record retained;
\* Entry of a plate without an active record succeeds whenever a space is
\* available and opens one new active record, all earlier records retained.
C13_PlateCycle ==
  [][/\ (ExitStep /\ activeOf(last'.req.plateNumber) # {})
          => /\ last'.res.code = 200
             /\ Len(vehicles') = Len(vehicles)
             /\ \A i \in 1..Len(vehicles) :
                   vehicles[i].plate_number = last'.req.plateNumber
                     => ~IsActive(vehicles'[i])
     /\ (EntryStep /\ activeOf(last'.req.plateNumber) = {} /\ availableAny # {})
          => /\ last'.res.code = 200
             /\ Len(vehicles') = Len(vehicles) + 1
             /\ SubSeq(vehicles', 1, Len(vehicles)) = vehicles
             /\ vehicles'[Len(vehicles')].plate_number = last'.req.plateNumber
             /\ IsActive(vehicles'[Len(vehicles')])]_vars

\* C14: a reservation toggle on a space whose status is occupied is rejected
\* with an error and leaves the status of the space unchanged.
C14_ToggleOccupiedRejected ==
  [][(ReserveStep /\ spaces[last'.req.spaceId].status = "occupied")
       => /\ last'.res.code >= 400
          /\ spaces' = spaces]_vars

\* C15: entries of distinct plates that are not parked, handled in any order,
\* use up the available spaces one by one: each entry handled while a space is
\* available succeeds and takes exactly one available space that no active
\* record references, each entry handled while none is available fails with
\* the lot-full error; so of N entries with k < N spaces exactly k succeed, on
\* k distinct spaces, and N - k fail with lot-full.
C15_EntriesUseUpSpaces ==
  [][(EntryStep /\ ~plateHasRow(last'.req.plateNumber))
       => IF availableAny # {}
          THEN /\ last'.res.code = 200
               /\ last'.res.spaceId \in availableAny
               /\ activeOn(last'.res.spaceId) = {}
               /\ {i \in DOMAIN spaces' : spaces'[i].status = "available"}
                    = availableAny \ {last'.res.spaceId}
          ELSE /\ last'.res = LotFull
               /\ db' = db]_vars

\* the space the entry request held in `last` was due to get: the one it was
\* given, or the one the selection yields if it was given none
dueSpace ==
  IF last.res.code = 200 THEN last.res.spaceId
  ELSE selectSpace(isWhitelisted(last.req.plateNumber))

ledgerOnOccupied ==
  \A i \in ActiveIds :
     spaces[vehicles[i].space_id].status \notin {"reserved", "available"}

EntryWrites ==
  /\ Len(vehicles') = Len(vehicles) + 1
  /\ SubSeq(vehicles', 1, Len(vehicles)) = vehicles
  /\ IsActive(vehicles'[Len(vehicles')])
  /\ spaces' = [spaces EXCEPT ![vehicles'[Len(vehicles')].space_id].status = "occupied"]
  /\ Len(logs') = Len(logs) + 1
  /\ SubSeq(logs', 1, Len(logs)) = logs
  /\ logs'[Len(logs')].action = "entry"

ExitWrites ==
  /\ \E id \in ActiveIds :
        /\ vehicles' = [vehicles EXCEPT ![id].exit_time = <<now>>]
        /\ spaces' = [spaces EXCEPT ![vehicles[id].space_id].status = "available"]
  /\ Len(logs') = Len(logs) + 1
  /\ SubSeq(logs', 1, Len(logs)) = logs
  /\ logs'[Len(logs')].action = "exit"

\* an active record on a space that is not occupied, an occupied space without
\* an active record
unoccupiedLedger == {i \in ActiveIds : spaces[vehicles[i].space_id].status # "occupied"}
unledgeredOccupied == {s \in occupiedSpaces : activeOn(s) = {}}

\* C17: every Entry and every Exit is all-or-nothing: a request that fails
\* leaves the tables as they were before the call, a request that succeeds has
\* made all three of its writes; and there is never an active record whose
\* space is not occupied nor an occupied space without an active record.
C17_AllOrNothing ==
  /\ [][/\ EntryStep => \/ (last'.res.code >= 400 /\ db' = db)
                        \/ (last'.res.code = 200 /\ EntryWrites
                              /\ package_whitelist' = package_whitelist)
        /\ ExitStep => \/ (last'.res.code >= 400 /\ db' = db)
                       \/ (last'.res.code = 200 /\ ExitWrites
                             /\ package_whitelist' = package_whitelist)]_vars
  /\ [](unoccupiedLedger = {} /\ unledgeredOccupied = {})

\* C18: Entry marks a space occupied only from status available, Exit marks a
\* space available only from status occupied, and an Exit for a record whose
\* space is not occupied answers with an error and overwrites nothing.
C18_TransitionPreconditions ==
  [][/\ EntryStep =>
          \A s \in DOMAIN spaces :
             (spaces'[s].status = "occupied" /\ spaces[s].status # "occupied")
                => spaces[s].status = "available"
     /\ ExitStep =>
          \A s \in DOMAIN spaces :
             (spaces'[s].status = "available" /\ spaces[s].status # "available")
                => spaces[s].status = "occupied"
     /\ (ExitStep /\ \E i \in activeOf(last'.req.plateNumber) :
                        spaces[vehicles[i].space_id].status # "occupied")
          => /\ last'.res.code >= 400
             /\ spaces' = spaces]_vars

\* an exit was asked for a parked plate whose space reads reserved, and it was
\* answered with an error, the space still reserved
C18_Witness ==
  /\ last.req.op = "exit"
  /\ \E i \in activeOf(last.req.plateNumber) :
        spaces[vehicles[i].space_id].status = "reserved"
  /\ last.res.code >= 400

\* C19: every status is one of available, occupied, reserved, and a
\* reservation request changes a status only to available or reserved.
C19_StatusDomain ==
  /\ [](\A s \in DOMAIN spaces :
           spaces[s].status \in {"available", "occupied", "reserved"})
  /\ [][ReserveStep =>
          \A s \in DOMAIN spaces :
             spaces'[s].status # spaces[s].status
                => spaces'[s].status \in {"available", "reserved"}]_vars

\* C20: no two whitelist rows have the same plate, and adding a plate that is
\* registered fails with the duplicate error and leaves every row (plate,
\* notes, creation time) as it was.
C20_WhitelistUnique ==
  /\ [](\A v \in package_whitelist, w \in package_whitelist :
           v.plate_number = w.plate_number => v = w)
  /\ [][(WhitelistAddStep /\ isWhitelisted(last'.req.plateNumber))
          => /\ last'.res = Duplicate
             /\ package_whitelist' = package_whitelist]_vars

\* a plate was added again, with other notes than its row has, and refused
C20_Witness ==
  /\ last.req.op = "whitelist_add"
  /\ last.res = Duplicate
  /\ \E w \in package_whitelist :
        w.plate_number = last.req.plateNumber /\ w.notes # last.req.notes


WhitelistRemoveStep ==
  last'.req.op = "whitelist_remove" /\ now' = now /\ ui' = ui

\* C21: removing a plate from the whitelist succeeds whether or not the plate
\* is registered and leaves the whitelist without that plate, every other row
\* as it was; a removal that follows a removal of the same plate succeeds too
\* and leaves the whitelist as the first removal left it.
C21_RemoveIdempotent ==
  [][WhitelistRemoveStep
       => /\ last'.res = Success
          /\ package_whitelist' =
               {w \in package_whitelist : w.plate_number # last'.req.plateNumber}
          /\ (last.req.op = "whitelist_remove"
                /\ last.req.plateNumber = last'.req.plateNumber)
                => (last.res = Success /\ package_whitelist' = package_whitelist)]_vars

\* a plate of the seeded whitelist was removed, with success, and is gone
C21_Witness ==
  /\ last.req.op = "whitelist_remove"
  /\ last.req.plateNumber = HuC66666
  /\ last.res = Success
  /\ ~isWhitelisted(HuC66666)
  /\ \A w \in seedWhitelist(SeedNow) :
        w.plate_number # HuC66666 => w \in package_whitelist

\* the log has grown by one event and kept every earlier one
appendedOne ==
  /\ Len(logs') = Len(logs) + 1
  /\ SubSeq(logs', 1, Len(logs)) = logs

\* C22: the event log is append-only: every step leaves the earlier events as
\* they were, in their order; an Entry that succeeds appends exactly one entry
\* event for its plate with amount 0 and half-day count 0, an Exit that
\* succeeds appends exactly one exit event for its plate whose amount and
\* half-day count are those returned to the caller, and a request that fails,
\* like every request that is neither Entry nor Exit, appends nothing.
C22_LogAppendOnly ==
  [][/\ \/ logs' = logs
        \/ /\ Len(logs') >= Len(logs)
           /\ SubSeq(logs', 1, Len(logs)) = logs
     /\ (EntryStep /\ last'.res.code = 200)
          => /\ appendedOne
             /\ logs'[Len(logs')] =
                  [plate_number |-> last'.req.plateNumber, action |-> "entry",
                   timestamp |-> now, amount |-> 0, duration_half_days |-> 0]
     /\ (ExitStep /\ last'.res.code = 200)
          => /\ appendedOne
             /\ logs'[Len(logs')] =
                  [plate_number |-> last'.req.plateNumber, action |-> "exit",
                   timestamp |-> now, amount |-> last'.res.amount,
                   duration_half_days |-> last'.res.durationHalfDays]
     /\ ~((EntryStep \/ ExitStep) /\ last'.res.code = 200) => logs' = logs]_vars

\* an exit of a parked plate has failed, the clock has moved on, and the log
\* holds the seeded events and nothing else
C22_Witness ==
  /\ last.req.op = "exit"
  /\ activeOf(last.req.plateNumber) # {}
  /\ last.res.code >= 400
  /\ now > SeedNow
  /\ logs = seedLogs

\* the spaces an entry of the plate may be given: the available package spaces
\* for a whitelisted plate when there are any, else every available space
eligible(plate) ==
  IF isWhitelisted(plate) /\ availablePackage # {} THEN availablePackage
  ELSE availableAny

\* C23: Entry of a plate that is not parked, with a space available, assigns
\* the space with the lowest identifier of the eligible set; the space is a
\* function of the state the request is handled in.
C23_LowestEligible ==
  [][(EntryStep /\ ~plateHasRow(last'.req.plateNumber) /\ availableAny # {})
       => /\ last'.res.code = 200
          /\ last'.res.spaceId = Min(eligible(last'.req.plateNumber))
          /\ vehicles'[Len(vehicles')].space_id = last'.res.spaceId]_vars

\* C24: a step leaves every occupancy record in place with its plate, package
\* flag, entry time and space; an exit time changes only from unset to the time
\* of the Exit of the record's plate, which succeeds, and never again; an Exit
\* for a plate without an active record, as the second Exit of a visit is,
\* fails with the not-parked error.
C24_RecordMutatedOnce ==
  [][/\ Len(vehicles') >= Len(vehicles)
     /\ \A i \in 1..Len(vehicles) :
          /\ vehicles'[i].plate_number = vehicles[i].plate_number
          /\ vehicles'[i].has_package = vehicles[i].has_package
          /\ vehicles'[i].entry_time = vehicles[i].entry_time
          /\ vehicles'[i].space_id = vehicles[i].space_id
          /\ vehicles'[i].exit_time # vehicles[i].exit_time
               => /\ vehicles[i].exit_time = NULL
                  /\ vehicles'[i].exit_time = <<now>>
                  /\ ExitStep
                  /\ last'.req.plateNumber = vehicles[i].plate_number
     /\ (ExitStep /\ activeOf(last'.req.plateNumber) # {})
          => /\ last'.res.code = 200
             /\ \A i \in activeOf(last'.req.plateNumber) :
                   vehicles'[i].exit_time = <<now>>
     /\ (ExitStep /\ activeOf(last'.req.plateNumber) = {})
          => last'.res = NotParked]_vars

C27_EntryExitRoundTrip ==
  [][(/\ ExitStep
      /\ last.req.op = "entry"
      /\ last.req.plateNumber = last'.req.plateNumber
      /\ \/ last.res.code = 200
         \/ (~plateHasRow(last.req.plateNumber) /\ availableAny # {}))
       => /\ last.res.code = 200
          /\ last'.res.code = 200
          /\ spaces' = [spaces EXCEPT ![last.res.spaceId].status = "available"]
          /\ {i \in 1..Len(vehicles') : IsActive(vehicles'[i])}
               = ActiveIds \ {Len(vehicles)}
          /\ appendedOne
          /\ logs[Len(logs)].action = "entry"
          /\ logs[Len(logs)].plate_number = last.req.plateNumber
          /\ logs'[Len(logs')].action = "exit"
          /\ logs'[Len(logs')].plate_number = last.req.plateNumber]_vars

\* the events of a plate, in the order of the log
eventsOf(plate) == SelectSeq(logs, LAMBDA e : e.plate_number = plate)

knownPlates ==
  {logs[i].plate_number : i \in 1..Len(logs)}
    \cup {vehicles[i].plate_number : i \in 1..Len(vehicles)}
    \cup PlateInputs

\* C28: for every plate the events of the log alternate entry, exit, entry,
\* ... from an entry on, and the plate has one entry event more than exit
\* events if it has an active record, as many if it has none.
C28_LogMatchesLedger ==
  \A p \in knownPlates :
     LET ev == eventsOf(p) IN
     /\ \A k \in 1..Len(ev) :
           ev[k].action = IF k % 2 = 1 THEN "entry" ELSE "exit"
     /\ Cardinality({k \in 1..Len(ev) : ev[k].action = "entry"})
          - Cardinality({k \in 1..Len(ev) : ev[k].action = "exit"})
          = IF activeOf(p) # {} THEN 1 ELSE 0

\* an entry was asked for a parked plate, whose only event is its entry, while
\* a plate of the seeded history has its entry and its exit
C28_Witness ==
  /\ last.req.op = "entry"
  /\ activeOf(last.req.plateNumber) # {}
  /\ Len(eventsOf(last.req.plateNumber)) = 1
  /\ Len(eventsOf(YueB12345)) = 2

\* C29: every amount and every half-day count in the log, and every one an
\* Exit returns, is at least 0, also for an Exit handled at a time before the
\* entry time of the record; the total revenue never decreases.
C29_NonNegative ==
  /\ [](\A i \in 1..Len(logs) :
           logs[i].amount >= 0 /\ logs[i].duration_half_days >= 0)
  /\ [][/\ ExitStep => (last'.res.amount >= 0 /\ last'.res.durationHalfDays >= 0)
        /\ totalRevenue' >= totalRevenue]_vars

\* an exit was asked for a parked plate without package whose entry time is
\* more than half a day after the time of the request
C29_Witness ==
  /\ last.req.op = "exit"
  /\ \E i \in activeOf(last.req.plateNumber) :
        /\ vehicles[i].has_package = 0
        /\ halfDaysOf(now - vehicles[i].entry_time) < 0
  /\ totalRevenue = sumAmount(seedLogs)

\* the spaces whose status the step changes
changedSpaces == {s \in DOMAIN spaces : spaces'[s].status # spaces[s].status}

\* C30: an Entry or Exit for a plate leaves the whitelist, the set of spaces,
\* the type of every space and the records of every other plate as they were,
\* adds records for that plate only, and changes the status of at most one
\* space, the one of a record of that plate.
C30_Frame ==
  [][((EntryStep \/ ExitStep) /\ db' # db)
       => /\ package_whitelist' = package_whitelist
          /\ DOMAIN spaces' = DOMAIN spaces
          /\ \A s \in DOMAIN spaces : spaces'[s].type = spaces[s].type
          /\ \A i \in 1..Len(vehicles) :
                vehicles[i].plate_number # last'.req.plateNumber
                  => vehicles'[i] = vehicles[i]
          /\ \A i \in 1..Len(vehicles') :
                i > Len(vehicles)
                  => vehicles'[i].plate_number = last'.req.plateNumber
          /\ Cardinality(changedSpaces) <= 1
          /\ \A s \in changedSpaces :
                \E i \in 1..Len(vehicles') :
                   /\ vehicles'[i].plate_number = last'.req.plateNumber
                   /\ vehicles'[i].space_id = s
                   /\ (i > Len(vehicles) \/ vehicles'[i] # vehicles[i])]_vars

\* an exit was asked for a parked plate that had been put on the whitelist,
\* while a space was reserved: the row and the reservation are still there
C30_Witness ==
  /\ last.req.op = "exit"
  /\ last.req.plateNumber = SuE99999
  /\ activeOf(SuE99999) # {}
  /\ isWhitelisted(SuE99999)
  /\ \E s \in DOMAIN spaces : spaces[s].status = "reserved"

\* C31: in every reachable state the availableSpaces figure of the stats view
\* is the number of spaces whose status is available, and an Entry fails with
\* the lot-full error exactly when that figure is 0.
C31_StatsAvailable ==
  /\ [](stats.availableSpaces = Cardinality(availableAny))
  /\ [][EntryStep => ((last'.res = LotFull) <=> (stats.availableSpaces = 0))]_vars

====
